---- MODULE Spec2Model ----
(***************************************************************************)
(* Model of src/graph_traversal.rs: an immutable Graph (a vector of Nodes, *)
(* each a value and a list of neighbor indices) and three lazy iterators   *)
(* over it: BfsIterator (VecDeque + HashSet), DfsIterator (Vec + HashSet)  *)
(* and NextSmallestIterator (BinaryHeap<Reverse<(i32, usize)>> + HashSet). *)
(*                                                                         *)
(* Node indices are 0-based as in the source; graph.nodes[i] is graph[i+1].*)
(* One action models one whole call of next(), its `while let` loop        *)
(* included.  An index out of bounds is a panic: the call ends with        *)
(* last = "panic" in the state the unwinding leaves behind, and the        *)
(* iterator is not pulled again.                                           *)
(***************************************************************************)
EXTENDS Integers, Sequences, FiniteSets, TLC

\* Bounds of the model.
MaxNodes == 3        \* generated graphs have 1..MaxNodes nodes
MaxDeg == 2          \* generated neighbor lists have 0..MaxDeg entries
MaxValue == 1        \* generated node values are 0..MaxValue
PairNodes == 2       \* node count of the generated graphs of SpecPair
MaxNonePulls == 2    \* next() calls observed after exhaustion
AnyNodes == 3        \* generated graphs of SpecAny have 0..AnyNodes nodes

VARIABLES graph, its

vars == <<graph, its>>

----------------------------------------------------------------------------
\* Graph store

Node(v, ns) == [value |-> v, neighbors |-> ns]

\* The graph built in main().
MainGraph ==
    << Node(0, <<1, 2>>),
       Node(1, <<0, 5, 4>>),
       Node(2, <<0, 3>>),
       Node(3, <<1>>),
       Node(4, <<1, 2>>),
       Node(5, <<1, 2>>) >>

\* graph.nodes.len()
NodeCount(g) == Len(g)

\* Whether graph.nodes[i] is in bounds (graph.nodes.get(i) is Some).
InRange(g, i) == i < NodeCount(g)

\* graph.nodes[i], for i in bounds.
NodeAt(g, i) == g[i + 1]

----------------------------------------------------------------------------
\* Sequence helpers

\* iter().rev()
Rev(s) == [k \in 1..Len(s) |-> s[Len(s) + 1 - k]]

\* The sequence s without its element at position k.
RemoveAt(s, k) == SubSeq(s, 1, k - 1) \o SubSeq(s, k + 1, Len(s))

----------------------------------------------------------------------------
\* Iterator state.  frontier is the queue (bfs), the stack (dfs, top last) or
\* the heap's content (ns, pairs <<value, index>>).  start, yielded, last,
\* pops and nones record the construction argument and the history of calls:
\* the indices of the nodes returned so far, the outcome of the latest call
\* ("new" before the first), the number of frontier removals and the number
\* of calls that returned None.

Iter(kind, frontier, visited, start) ==
    [kind |-> kind, frontier |-> frontier, visited |-> visited,
     start |-> start, yielded |-> <<>>, last |-> "new", pops |-> 0, nones |-> 0]

\* Faulty variant of BfsNew: an out-of-range start gives an empty queue.
BfsNewGuarded(g, start) ==
    Iter("bfs", IF InRange(g, start) THEN <<start>> ELSE <<>>, {}, start)

\* BfsIterator::new
BfsNew(g, start) == Iter("bfs", <<start>>, {}, start)

\* DfsIterator::new
DfsNew(g, start) == Iter("dfs", <<start>>, {}, start)

\* Faulty variant of NsNew: start is pushed and marked without the get()
\* guard (with value 0 when it has no node).
NsNewUnguarded(g, start) ==
    Iter("ns", << <<IF InRange(g, start) THEN NodeAt(g, start).value ELSE 0,
                   start>> >>, {start}, start)

\* NextSmallestIterator::new
NsNew(g, start) ==
    IF InRange(g, start)
    THEN Iter("ns", << <<NodeAt(g, start).value, start>> >>, {start}, start)
    ELSE Iter("ns", <<>>, {}, start)

New(kind, g, start) ==
    CASE kind = "bfs" -> BfsNew(g, start)
      [] kind = "dfs" -> DfsNew(g, start)
      [] kind = "ns" -> NsNew(g, start)

----------------------------------------------------------------------------
\* Steps shared by the three next() bodies

\* Faulty variant of Unvisited: the contains() test is dropped.
AlwaysUnvisited(it, n) == TRUE

\* !self.visited.contains(&neighbor_index)
Unvisited(it, n) == n \notin it.visited

\* Faulty variant of AlreadyVisited: the skip of a visited node is dropped.
NeverAlreadyVisited(it, node_index) == FALSE

\* !self.visited.insert(node_index): TRUE when node_index was already there.
AlreadyVisited(it, node_index) == node_index \in it.visited

\* Faulty variant of Exhausted: an exhausted BFS or DFS rewinds to its start.
ExhaustedRestart(it) ==
    [it EXCEPT !.last = "none", !.nones = @ + 1,
               !.frontier = IF it.kind = "ns" THEN @ ELSE <<it.start>>,
               !.visited = IF it.kind = "ns" THEN @ ELSE {}]

\* The trailing None of next().
Exhausted(it) == [it EXCEPT !.last = "none", !.nones = @ + 1]

\* return Some(node)
Yield(it, node_index) ==
    [it EXCEPT !.yielded = Append(@, node_index), !.last = "some"]

\* Faulty variant of Panic: the lookup uses get() and the call returns None.
PanicSwallowed(it) == [it EXCEPT !.last = "none", !.nones = @ + 1]

\* An out-of-bounds index: the call unwinds.
Panic(it) == [it EXCEPT !.last = "panic"]

----------------------------------------------------------------------------
\* BfsIterator::next

\* Faulty variant of BfsPop: pop_back() instead of pop_front().
BfsPopBack(it) ==
    [node_index |-> it.frontier[Len(it.frontier)],
     it |-> [it EXCEPT !.frontier = SubSeq(@, 1, Len(@) - 1), !.pops = @ + 1]]

\* self.queue.pop_front()
BfsPop(it) ==
    [node_index |-> Head(it.frontier),
     it |-> [it EXCEPT !.frontier = Tail(@), !.pops = @ + 1]]

\* Faulty variant of BfsExpand: the neighbors are pushed in reverse order.
BfsExpandRev(it, neighbors) ==
    [it EXCEPT !.frontier =
        @ \o SelectSeq(Rev(neighbors), LAMBDA n : Unvisited(it, n))]

\* Faulty variant of BfsExpand: the loop stops one neighbor short.
BfsExpandDropLast(it, neighbors) ==
    [it EXCEPT !.frontier =
        @ \o SelectSeq(SubSeq(neighbors, 1, Len(neighbors) - 1),
                       LAMBDA n : Unvisited(it, n))]

\* for &neighbor_index in &node.neighbors { if unvisited { push_back } }
BfsExpand(it, neighbors) ==
    [it EXCEPT !.frontier = @ \o SelectSeq(neighbors, LAMBDA n : Unvisited(it, n))]

RECURSIVE BfsLoop(_, _)
BfsLoop(g, it) ==
    IF it.frontier = <<>> THEN Exhausted(it)
    ELSE LET p == BfsPop(it) IN
         IF AlreadyVisited(p.it, p.node_index) THEN BfsLoop(g, p.it)
         ELSE LET marked == [p.it EXCEPT !.visited = @ \cup {p.node_index}] IN
              IF ~InRange(g, p.node_index) THEN Panic(marked)
              ELSE Yield(BfsExpand(marked, NodeAt(g, p.node_index).neighbors),
                         p.node_index)

----------------------------------------------------------------------------
\* DfsIterator::next

\* Faulty variant of DfsPop: the oldest entry is removed instead of the newest.
DfsPopFront(it) ==
    [node_index |-> Head(it.frontier),
     it |-> [it EXCEPT !.frontier = Tail(@), !.pops = @ + 1]]

\* self.stack.pop()
DfsPop(it) ==
    [node_index |-> it.frontier[Len(it.frontier)],
     it |-> [it EXCEPT !.frontier = SubSeq(@, 1, Len(@) - 1), !.pops = @ + 1]]

\* Faulty variant of DfsExpand: each pushed index is one too large.
DfsExpandOffByOne(it, neighbors) ==
    [it EXCEPT !.frontier =
        @ \o [k \in 1..Len(SelectSeq(Rev(neighbors), LAMBDA n : Unvisited(it, n))) |->
                SelectSeq(Rev(neighbors), LAMBDA n : Unvisited(it, n))[k] + 1]]

\* Faulty variant of DfsExpand: the neighbors are pushed without .rev().
DfsExpandNoRev(it, neighbors) ==
    [it EXCEPT !.frontier = @ \o SelectSeq(neighbors, LAMBDA n : Unvisited(it, n))]

\* for &neighbor_index in node.neighbors.iter().rev() { if unvisited { push } }
DfsExpand(it, neighbors) ==
    [it EXCEPT !.frontier =
        @ \o SelectSeq(Rev(neighbors), LAMBDA n : Unvisited(it, n))]

RECURSIVE DfsLoop(_, _)
DfsLoop(g, it) ==
    IF it.frontier = <<>> THEN Exhausted(it)
    ELSE LET p == DfsPop(it) IN
         IF AlreadyVisited(p.it, p.node_index) THEN DfsLoop(g, p.it)
         ELSE LET marked == [p.it EXCEPT !.visited = @ \cup {p.node_index}] IN
              IF ~InRange(g, p.node_index) THEN Panic(marked)
              ELSE Yield(DfsExpand(marked, NodeAt(g, p.node_index).neighbors),
                         p.node_index)

----------------------------------------------------------------------------
\* NextSmallestIterator::next

\* The order of Reverse<(i32, usize)> read as a min-order: a before b when
\* a's value is smaller, or the values are equal and a's index is smaller.
PairLess(a, b) == a[1] < b[1] \/ (a[1] = b[1] /\ a[2] < b[2])

\* Faulty variant of HeapMinPos: Reverse is missing, the heap pops a greatest pair.
HeapMaxPos(h) ==
    CHOOSE k \in DOMAIN h :
        /\ \A j \in DOMAIN h : ~PairLess(h[k], h[j])
        /\ \A j \in DOMAIN h : (j < k) => h[j] # h[k]

\* Faulty variant of HeapMinPos: Reverse wraps the value alone, so that among equal
\* values the greater index is popped first.
HeapMinPosLargerId(h) ==
    CHOOSE k \in DOMAIN h :
        /\ \A j \in DOMAIN h :
              h[k][1] < h[j][1] \/ (h[k][1] = h[j][1] /\ h[k][2] >= h[j][2])
        /\ \A j \in DOMAIN h : (j < k) => h[j] # h[k]

\* The position of the entry heap.pop() returns: a least pair.
HeapMinPos(h) ==
    CHOOSE k \in DOMAIN h :
        /\ \A j \in DOMAIN h : ~PairLess(h[j], h[k])
        /\ \A j \in DOMAIN h : (j < k) => h[j] # h[k]

\* self.heap.pop()
NsPop(it) ==
    LET k == HeapMinPos(it.frontier) IN
    [node_index |-> it.frontier[k][2],
     it |-> [it EXCEPT !.frontier = RemoveAt(@, k), !.pops = @ + 1]]

\* Faulty variant of NsExpand: a pushed neighbor is not inserted into visited.
RECURSIVE NsExpandNoMark(_, _, _)
NsExpandNoMark(g, it, neighbors) ==
    IF neighbors = <<>> THEN [it |-> it, ok |-> TRUE]
    ELSE LET n == Head(neighbors) IN
         IF ~Unvisited(it, n) THEN NsExpandNoMark(g, it, Tail(neighbors))
         ELSE IF ~InRange(g, n) THEN [it |-> it, ok |-> FALSE]
              ELSE NsExpandNoMark(g,
                            [it EXCEPT !.frontier =
                                Append(@, <<NodeAt(g, n).value, n>>)],
                            Tail(neighbors))

\* The for loop over node.neighbors: an unvisited neighbor is inserted into
\* visited, then looked up (the index may be out of bounds), then pushed.
RECURSIVE NsExpand(_, _, _)
NsExpand(g, it, neighbors) ==
    IF neighbors = <<>> THEN [it |-> it, ok |-> TRUE]
    ELSE LET n == Head(neighbors) IN
         IF ~Unvisited(it, n) THEN NsExpand(g, it, Tail(neighbors))
         ELSE LET marked == [it EXCEPT !.visited = @ \cup {n}] IN
              IF ~InRange(g, n) THEN [it |-> marked, ok |-> FALSE]
              ELSE NsExpand(g,
                            [marked EXCEPT !.frontier =
                                Append(@, <<NodeAt(g, n).value, n>>)],
                            Tail(neighbors))

NsLoop(g, it) ==
    IF it.frontier = <<>> THEN Exhausted(it)
    ELSE LET p == NsPop(it) IN
         IF ~InRange(g, p.node_index) THEN Panic(p.it)
         ELSE LET e == NsExpand(g, p.it, NodeAt(g, p.node_index).neighbors) IN
              IF e.ok THEN Yield(e.it, p.node_index) ELSE Panic(e.it)

----------------------------------------------------------------------------
\* The state machine: a graph and the iterators alive over it.

\* An iterator can be pulled unless a call on it panicked; calls after
\* exhaustion are followed up to MaxNonePulls.
CanPull(it) == it.last # "panic" /\ it.nones < MaxNonePulls

\* Faulty variant of Store: the visited set is one set shared by all iterators.
StoreSharedVisited(s, i, new) ==
    [j \in DOMAIN s |->
        IF j = i THEN new ELSE [s[j] EXCEPT !.visited = new.visited]]

\* The iterator's own fields are what a call on it writes (&mut self).
Store(s, i, new) == [s EXCEPT ![i] = new]

BfsNext ==
    \E i \in DOMAIN its :
        /\ its[i].kind = "bfs"
        /\ CanPull(its[i])
        /\ its' = Store(its, i, BfsLoop(graph, its[i]))
        /\ UNCHANGED graph

DfsNext ==
    \E i \in DOMAIN its :
        /\ its[i].kind = "dfs"
        /\ CanPull(its[i])
        /\ its' = Store(its, i, DfsLoop(graph, its[i]))
        /\ UNCHANGED graph

NsNext ==
    \E i \in DOMAIN its :
        /\ its[i].kind = "ns"
        /\ CanPull(its[i])
        /\ its' = Store(its, i, NsLoop(graph, its[i]))
        /\ UNCHANGED graph

Next == BfsNext \/ DfsNext \/ NsNext

Kinds == {"bfs", "dfs", "ns"}

NeighborLists(n) == UNION {[1..d -> 0..(n - 1)] : d \in 0..MaxDeg}

Nodes(n) == [value : 0..MaxValue, neighbors : NeighborLists(n)]

\* Graphs whose neighbor indices are all in range.
GraphsOf(n) == [1..n -> Nodes(n)]

Graphs == UNION {GraphsOf(n) : n \in 1..MaxNodes} \cup {MainGraph}

\* One iterator over a generated graph or main()'s graph, from a valid start.
Init ==
    /\ graph \in Graphs
    /\ \E kind \in Kinds, start \in 0..(NodeCount(graph) - 1) :
          its = <<New(kind, graph, start)>>

Spec == Init /\ [][Next]_vars

\* Two iterators alive over the same graph.
InitPair ==
    /\ graph \in GraphsOf(PairNodes) \cup {MainGraph}
    /\ \E k1 \in Kinds, k2 \in Kinds,
          s1 \in 0..(NodeCount(graph) - 1), s2 \in 0..(NodeCount(graph) - 1) :
          its = <<New(k1, graph, s1), New(k2, graph, s2)>>

SpecPair == InitPair /\ [][Next]_vars

\* Neighbor lists in which the index n, one past the end of an n-node graph,
\* may occur.
NeighborListsAny(n) == UNION {[1..d -> 0..n] : d \in 0..MaxDeg}

NodesAny(n) == [value : 0..MaxValue, neighbors : NeighborListsAny(n)]

\* Graphs of n nodes whose neighbor indices may be out of range.
GraphsAny(n) == [1..n -> NodesAny(n)]

\* One iterator over any graph, the empty one included, from any start up
\* to one past the end.
InitAny ==
    /\ graph \in UNION {GraphsAny(n) : n \in 0..AnyNodes} \cup {MainGraph}
    /\ \E kind \in Kinds, start \in 0..NodeCount(graph) :
          its = <<New(kind, graph, start)>>

SpecAny == InitAny /\ [][Next]_vars

----------------------------------------------------------------------------
\* Reference notions the properties below are stated with

\* The elements of a sequence.
Range(s) == {s[k] : k \in DOMAIN s}

\* The indices one neighbor edge away from a node of S.
Successors(g, S) == UNION {Range(NodeAt(g, m).neighbors) : m \in S}

RECURSIVE ReachFrom(_, _)
ReachFrom(g, S) ==
    LET T == S \cup Successors(g, S) IN
    IF T = S THEN S ELSE ReachFrom(g, T)

\* The nodes reachable from start by zero or more neighbor edges.
Reachable(g, start) == ReachFrom(g, {start})

\* The nodes at most d edges away from start.
RECURSIVE Within(_, _, _)
Within(g, start, d) ==
    IF d = 0 THEN {start}
    ELSE LET W == Within(g, start, d - 1) IN W \cup Successors(g, W)

\* The shortest-path distance from start to a reachable node n.
Dist(g, start, n) ==
    CHOOSE d \in 0..NodeCount(g) :
        /\ n \in Within(g, start, d)
        /\ d > 0 => n \notin Within(g, start, d - 1)

\* The recursive pre-order DFS: visit n, then recurse into each neighbor that
\* is not visited yet, in the neighbor list's left-to-right order.  acc is the
\* sequence of the nodes visited so far.
RECURSIVE RefVisit(_, _, _), RefVisitEach(_, _, _)
RefVisit(g, n, acc) == RefVisitEach(g, NodeAt(g, n).neighbors, Append(acc, n))
RefVisitEach(g, ns, acc) ==
    IF ns = <<>> THEN acc
    ELSE IF Head(ns) \in Range(acc) THEN RefVisitEach(g, Tail(ns), acc)
    ELSE RefVisitEach(g, Tail(ns), RefVisit(g, Head(ns), acc))

RefDfs(g, start) == RefVisit(g, start, <<>>)

IsPrefix(s, t) == Len(s) <= Len(t) /\ s = SubSeq(t, 1, Len(s))

NoDuplicates(s) == \A j, k \in DOMAIN s : j # k => s[j] # s[k]

\* The values of the nodes an iterator returned, in order.
Values(g, ys) == [k \in DOMAIN ys |-> NodeAt(g, ys[k]).value]

\* The node indices held in an iterator's frontier, in its order.
FrontierIds(it) ==
    IF it.kind = "ns" THEN [k \in DOMAIN it.frontier |-> it.frontier[k][2]]
    ELSE it.frontier

Count(s, x) == Cardinality({k \in DOMAIN s : s[k] = x})

\* The sum of all neighbor-list lengths of the graph.
RECURSIVE EdgeCountUpTo(_, _)
EdgeCountUpTo(g, n) ==
    IF n = 0 THEN 0 ELSE Len(g[n].neighbors) + EdgeCountUpTo(g, n - 1)
EdgeCount(g) == EdgeCountUpTo(g, Len(g))

\* One call of next() on an iterator, whatever its variant.
Pull(g, it) ==
    CASE it.kind = "bfs" -> BfsLoop(g, it)
      [] it.kind = "dfs" -> DfsLoop(g, it)
      [] it.kind = "ns" -> NsLoop(g, it)

\* The iterator after k calls of next() with nothing else running.
RECURSIVE RunAlone(_, _, _)
RunAlone(g, it, k) == IF k = 0 THEN it ELSE Pull(g, RunAlone(g, it, k - 1))

----------------------------------------------------------------------------
\* C1: over a graph with in-range neighbors and from a valid start, each of
\* the three iterators never yields a node index twice, yields only nodes
\* reachable from start, and by the time next() returns None has yielded
\* exactly the nodes reachable from start.
C1_ReachableExactlyOnce ==
    \A i \in DOMAIN its :
        LET it == its[i] IN
        /\ NoDuplicates(it.yielded)
        /\ Range(it.yielded) \subseteq Reachable(graph, it.start)
        /\ it.last = "none" => Range(it.yielded) = Reachable(graph, it.start)

\* An exhausted traversal of the three-node graph 0:[0,1] 1:[2,2] 2:[0,1]
\* (self-loop, repeated entry, cycle, shared neighbor) that yielded all three.
C1_Witness ==
    \E i \in DOMAIN its :
        /\ its[i].last = "none"
        /\ Len(its[i].yielded) = 3
        /\ NodeCount(graph) = 3
        /\ graph[1].neighbors = <<0, 1>>
        /\ graph[2].neighbors = <<2, 2>>
        /\ graph[3].neighbors = <<0, 1>>

----------------------------------------------------------------------------
\* C2 as stated: on main()'s graph from start 0, DfsIterator yields the
\* values 0,1,5,4,2,3 and then None.
C2_Original ==
    \A i \in DOMAIN its :
        LET it == its[i] IN
        (graph = MainGraph /\ it.kind = "dfs" /\ it.start = 0) =>
            /\ IsPrefix(Values(graph, it.yielded), <<0, 1, 5, 4, 2, 3>>)
            /\ it.last = "none" => Values(graph, it.yielded) = <<0, 1, 5, 4, 2, 3>>

\* C2 amended: on main()'s graph from start 0, DfsIterator yields the values
\* 0,1,5,2,3,4 in this order, and then None.
C2_DfsScenario ==
    \A i \in DOMAIN its :
        LET it == its[i] IN
        (graph = MainGraph /\ it.kind = "dfs" /\ it.start = 0) =>
            /\ it.last \in {"new", "some", "none"}
            /\ IsPrefix(Values(graph, it.yielded), <<0, 1, 5, 2, 3, 4>>)
            /\ it.last = "none" => Values(graph, it.yielded) = <<0, 1, 5, 2, 3, 4>>

\* The DFS of main() has run to its None.
C2_Witness ==
    \E i \in DOMAIN its :
        /\ graph = MainGraph
        /\ its[i].kind = "dfs"
        /\ its[i].start = 0
        /\ its[i].last = "none"
        /\ Len(its[i].yielded) = 6

----------------------------------------------------------------------------
\* The indices in the heap or already popped before the k-th yielded node is
\* expanded: start and the neighbors of the first k - 1 yielded nodes.
DiscoveredBefore(g, it, k) ==
    {it.start} \cup Successors(g, {it.yielded[j] : j \in 1..(k - 1)})

\* C3 as stated: any two consecutive nodes yielded by NextSmallestIterator
\* satisfy value[i] <= value[i+1].
C3_Original ==
    \A i \in DOMAIN its :
        LET it == its[i] IN
        it.kind = "ns" =>
            \A k \in 1..(Len(it.yielded) - 1) :
                NodeAt(graph, it.yielded[k]).value
                    <= NodeAt(graph, it.yielded[k + 1]).value

\* C3 amended: any two consecutive nodes yielded by NextSmallestIterator
\* satisfy value[i] <= value[i+1], unless node i+1 entered the heap only
\* when node i was expanded (it is neither start nor a neighbor of a node
\* yielded before node i).
C3_NonDecreasingAmongDiscovered ==
    \A i \in DOMAIN its :
        LET it == its[i] IN
        it.kind = "ns" =>
            \A k \in 1..(Len(it.yielded) - 1) :
                \/ NodeAt(graph, it.yielded[k]).value
                      <= NodeAt(graph, it.yielded[k + 1]).value
                \/ it.yielded[k + 1] \notin DiscoveredBefore(graph, it, k)

\* A priority traversal that yielded three nodes: the second has a smaller
\* value than start, which discovered it, and the third waited in the heap
\* together with the second.
C3_Witness ==
    \E i \in DOMAIN its :
        LET it == its[i] IN
        /\ it.kind = "ns"
        /\ Len(it.yielded) = 3
        /\ NodeAt(graph, it.yielded[2]).value < NodeAt(graph, it.yielded[1]).value
        /\ it.yielded[3] \in DiscoveredBefore(graph, it, 2)
        /\ NodeAt(graph, it.yielded[2]).value < NodeAt(graph, it.yielded[3]).value

----------------------------------------------------------------------------
\* C4: over a graph with in-range neighbors and from a valid start,
\* BfsIterator yields nodes in non-decreasing shortest-path distance from
\* start: an earlier yield is never farther from start than a later one.
C4_BfsDistanceOrder ==
    \A i \in DOMAIN its :
        LET it == its[i] IN
        it.kind = "bfs" =>
            \A j, k \in DOMAIN it.yielded :
                j < k => Dist(graph, it.start, it.yielded[j])
                            <= Dist(graph, it.start, it.yielded[k])

\* A BFS that yielded nodes of two layers while an index sits twice in the queue.
C4_Witness ==
    \E i \in DOMAIN its :
        LET it == its[i] IN
        /\ it.kind = "bfs"
        /\ Len(it.yielded) >= 2
        /\ Dist(graph, it.start, it.yielded[Len(it.yielded)]) >= 1
        /\ \E a, b \in DOMAIN it.frontier : a # b /\ it.frontier[a] = it.frontier[b]

----------------------------------------------------------------------------
\* C5: over a graph with in-range neighbors and from a valid start,
\* DfsIterator yields the nodes of the recursive pre-order DFS in its order:
\* what it has yielded is always a prefix of that sequence, and is the whole
\* sequence once next() has returned None.
C5_DfsIsRecursivePreorder ==
    \A i \in DOMAIN its :
        LET it == its[i] IN
        it.kind = "dfs" =>
            /\ IsPrefix(it.yielded, RefDfs(graph, it.start))
            /\ it.last = "none" => it.yielded = RefDfs(graph, it.start)

\* An exhausted DFS over three nodes that had to skip a stale stack entry.
C5_Witness ==
    \E i \in DOMAIN its :
        LET it == its[i] IN
        /\ it.kind = "dfs"
        /\ it.last = "none"
        /\ Len(it.yielded) = 3
        /\ it.pops > 3

----------------------------------------------------------------------------
\* a is not after b in the order by value, then by index.
LexLeq(a, b) == a[1] < b[1] \/ (a[1] = b[1] /\ a[2] <= b[2])

\* A call of NextSmallestIterator::next that yields: the yielded node's
\* (value, index) pair was in the heap when the call began and no entry of
\* that heap is smaller.
C6_Step ==
    \A i \in DOMAIN its :
        (its[i].kind = "ns" /\ Len(its'[i].yielded) = Len(its[i].yielded) + 1) =>
            LET y == its'[i].yielded[Len(its'[i].yielded)]
                e == <<NodeAt(graph, y).value, y>>
            IN /\ e \in Range(its[i].frontier)
               /\ \A f \in Range(its[i].frontier) : LexLeq(e, f)

\* The first node yielded is start; every later one is listed as a neighbor
\* by a node yielded before it.
C6_DiscoveredFirst ==
    \A i \in DOMAIN its :
        LET it == its[i] IN
        it.kind = "ns" =>
            \A k \in DOMAIN it.yielded :
                IF k = 1 THEN it.yielded[k] = it.start
                ELSE \E j \in 1..(k - 1) :
                        it.yielded[k] \in Range(NodeAt(graph, it.yielded[j]).neighbors)

\* C6: every node NextSmallestIterator::next yields has the lexicographically
\* smallest (value, index) pair of the heap as it was when that call began,
\* and a node other than start is yielded only after a node that lists it as
\* a neighbor.
C6_PopsMinimumPair == [][C6_Step]_vars /\ []C6_DiscoveredFirst

\* A priority traversal whose start lists two equal-valued neighbors, the
\* greater index first, and which yielded the smaller index before the greater.
C6_Witness ==
    \E i \in DOMAIN its :
        LET it == its[i] IN
        /\ it.kind = "ns"
        /\ Len(it.yielded) = 3
        /\ NodeAt(graph, it.start).neighbors = <<it.yielded[3], it.yielded[2]>>
        /\ NodeAt(graph, it.yielded[2]).value = NodeAt(graph, it.yielded[3]).value
        /\ it.yielded[2] < it.yielded[3]

----------------------------------------------------------------------------
\* C7: exhaustion is permanent for all three iterators: once next() has
\* returned None, every later call returns None again and leaves frontier,
\* visited set and the yielded sequence as they were.
C7_ExhaustionPermanent ==
    [][\A i \in DOMAIN its :
          its[i].last = "none" =>
              /\ its'[i].last = "none"
              /\ its'[i].frontier = its[i].frontier
              /\ its'[i].visited = its[i].visited
              /\ its'[i].yielded = its[i].yielded]_vars

\* An iterator that yielded nodes and then returned None twice.
C7_Witness ==
    \E i \in DOMAIN its :
        /\ its[i].nones >= 2
        /\ its[i].last = "none"
        /\ Len(its[i].yielded) >= 2

----------------------------------------------------------------------------
\* A step leaves the graph as it is and changes one iterator at most: when
\* one iterator's state changes, every other iterator's frontier and visited
\* set stay what they were.
C8_Step ==
    /\ graph' = graph
    /\ \A i, j \in DOMAIN its :
          (i # j /\ its'[i] # its[i]) =>
              /\ its'[j].frontier = its[j].frontier
              /\ its'[j].visited = its[j].visited

\* Each iterator is in the state, and has yielded the sequence, that the
\* same number of next() calls gives an iterator of its variant and start
\* that runs alone.
C8_AsAlone ==
    \A i \in DOMAIN its :
        LET it == its[i] IN
        it = RunAlone(graph, New(it.kind, graph, it.start),
                      Len(it.yielded) + it.nones)

\* C8: two live iterators over one graph, of any variants and starts, are
\* independent under every interleaving of their next() calls: each yields
\* what it yields alone, a step of one leaves the other's frontier and
\* visited set unchanged, and no step changes the graph.
C8_Independent == [][C8_Step]_vars /\ []C8_AsAlone

\* A BFS from 0 and a priority traversal from another start, both run to
\* exhaustion over main()'s graph.
C8_Witness ==
    /\ graph = MainGraph
    /\ Len(its) = 2
    /\ its[1].kind = "bfs" /\ its[1].start = 0
    /\ its[2].kind = "ns" /\ its[2].start # 0
    /\ its[1].last = "none" /\ Len(its[1].yielded) = 6
    /\ its[2].last = "none" /\ Len(its[2].yielded) = 6

----------------------------------------------------------------------------
\* C9: in every variant, no next() call that begins with index x in the
\* visited set pushes x: x occurs in the frontier after the call at most as
\* often as before it.
C9_VisitedNeverPushed ==
    [][\A i \in DOMAIN its :
          \A x \in its[i].visited :
              Count(FrontierIds(its'[i]), x) <= Count(FrontierIds(its[i]), x)]_vars

\* The node yielded last lists a neighbor that had been yielded before it,
\* and that neighbor is not in the frontier.
C9_Witness ==
    \E i \in DOMAIN its :
        LET it == its[i]
            n == Len(it.yielded)
        IN /\ n >= 2
           /\ \E k \in 1..(n - 1) :
                 /\ it.yielded[k] \in Range(NodeAt(graph, it.yielded[n]).neighbors)
                 /\ it.yielded[k] \notin Range(FrontierIds(it))

----------------------------------------------------------------------------
\* C10: over a graph of N nodes with in-range neighbors and from a valid
\* start, no iterator yields more than N nodes, a call made after N or more
\* calls returns None, no call fails, and the frontier removals of the whole
\* traversal number at most 1 + (sum of all neighbor-list lengths) for BFS
\* and DFS and at most N for the priority variant.
C10_Terminates ==
    \A i \in DOMAIN its :
        LET it == its[i] IN
        /\ Len(it.yielded) <= NodeCount(graph)
        /\ it.last # "panic"
        /\ Len(it.yielded) + it.nones > NodeCount(graph) => it.last = "none"
        /\ it.kind \in {"bfs", "dfs"} => it.pops <= 1 + EdgeCount(graph)
        /\ it.kind = "ns" => it.pops <= NodeCount(graph)

\* An exhausted BFS or DFS that removed stale entries too and whose frontier
\* removals reached 1 + (sum of all neighbor-list lengths).
C10_Witness ==
    \E i \in DOMAIN its :
        LET it == its[i] IN
        /\ it.kind \in {"bfs", "dfs"}
        /\ it.last = "none"
        /\ EdgeCount(graph) >= 3
        /\ it.pops = 1 + EdgeCount(graph)
        /\ it.pops > Len(it.yielded)

----------------------------------------------------------------------------
\* C11: a NextSmallestIterator built with start >= N (the empty graph
\* included) has an empty heap and an empty visited set, yields nothing,
\* returns None from its first next() on and never fails.
C11_NsInvalidStartIsEmpty ==
    \A i \in DOMAIN its :
        LET it == its[i] IN
        (it.kind = "ns" /\ ~InRange(graph, it.start)) =>
            /\ it.frontier = <<>>
            /\ it.visited = {}
            /\ it.yielded = <<>>
            /\ it.last \in {"new", "none"}
            /\ it.last = "none" <=> it.nones >= 1

\* A priority traversal of a non-empty graph from one past the end that has
\* been pulled and returned None.
C11_Witness ==
    \E i \in DOMAIN its :
        /\ its[i].kind = "ns"
        /\ NodeCount(graph) >= 1
        /\ its[i].start = NodeCount(graph)
        /\ its[i].last = "none"

----------------------------------------------------------------------------
\* C12 as stated: from an invalid start every variant follows one policy, an
\* empty sequence or a failure at construction: an iterator that was built
\* from a start >= N yields nothing and no pull on it fails.
C12_UniformInvalidStart ==
    \A i \in DOMAIN its :
        ~InRange(graph, its[i].start) =>
            /\ its[i].yielded = <<>>
            /\ its[i].last # "panic"

----------------------------------------------------------------------------
\* C13: on main()'s graph from start 0, BfsIterator yields the values
\* 0,1,2,5,4,3 in this order and then None.
C13_BfsScenario ==
    \A i \in DOMAIN its :
        LET it == its[i] IN
        (graph = MainGraph /\ it.kind = "bfs" /\ it.start = 0) =>
            /\ it.last \in {"new", "some", "none"}
            /\ IsPrefix(Values(graph, it.yielded), <<0, 1, 2, 5, 4, 3>>)
            /\ it.last = "none" => Values(graph, it.yielded) = <<0, 1, 2, 5, 4, 3>>

\* The BFS of main() has run to its None.
C13_Witness ==
    \E i \in DOMAIN its :
        /\ graph = MainGraph
        /\ its[i].kind = "bfs"
        /\ its[i].start = 0
        /\ its[i].last = "none"
        /\ Len(its[i].yielded) = 6

----------------------------------------------------------------------------
\* C14: on main()'s graph from start 0, NextSmallestIterator yields the
\* values 0,1,2,3,4,5 in this order and then None; its heap holds the
\* indices {1,2} after the first yield, {2,4,5} after the second and {3,4,5}
\* after the third.
C14_NsScenario ==
    \A i \in DOMAIN its :
        LET it == its[i] IN
        (graph = MainGraph /\ it.kind = "ns" /\ it.start = 0) =>
            /\ it.last \in {"new", "some", "none"}
            /\ IsPrefix(Values(graph, it.yielded), <<0, 1, 2, 3, 4, 5>>)
            /\ it.last = "none" => Values(graph, it.yielded) = <<0, 1, 2, 3, 4, 5>>
            /\ Len(it.yielded) = 1 =>
                  (Len(it.frontier) = 2 /\ Range(FrontierIds(it)) = {1, 2})
            /\ Len(it.yielded) = 2 =>
                  (Len(it.frontier) = 3 /\ Range(FrontierIds(it)) = {2, 4, 5})
            /\ Len(it.yielded) = 3 =>
                  (Len(it.frontier) = 3 /\ Range(FrontierIds(it)) = {3, 4, 5})

\* The priority traversal of main() has run to its None.
C14_Witness ==
    \E i \in DOMAIN its :
        /\ graph = MainGraph
        /\ its[i].kind = "ns"
        /\ its[i].start = 0
        /\ its[i].last = "none"
        /\ Len(its[i].yielded) = 6

----------------------------------------------------------------------------
\* C15: a BfsIterator or DfsIterator built with start >= N holds the
\* frontier [start] and an empty visited set, and its first next() fails
\* with an index out of bounds, returning neither a node nor None, after
\* start has been removed from the frontier and inserted into visited.
C15_BfsDfsInvalidStartFails ==
    \A i \in DOMAIN its :
        LET it == its[i] IN
        (it.kind \in {"bfs", "dfs"} /\ ~InRange(graph, it.start)) =>
            /\ it.yielded = <<>>
            /\ it.nones = 0
            /\ \/ it.last = "new" /\ it.frontier = <<it.start>> /\ it.visited = {}
               \/ it.last = "panic" /\ it.frontier = <<>> /\ it.visited = {it.start}

\* A BFS or DFS from one past the end of a non-empty graph whose first pull failed.
C15_Witness ==
    \E i \in DOMAIN its :
        /\ its[i].kind \in {"bfs", "dfs"}
        /\ NodeCount(graph) >= 1
        /\ its[i].start = NodeCount(graph)
        /\ its[i].last = "panic"
        /\ its[i].visited = {its[i].start}

----------------------------------------------------------------------------
\* C16: between any two next() calls of a NextSmallestIterator no index is
\* in the heap twice, every index in the heap is in visited, and visited is
\* the disjoint union of the yielded indices and the indices in the heap; so
\* the heap is no larger than the number of discovered nodes not yet yielded.
C16_HeapVisitedPartition ==
    \A i \in DOMAIN its :
        LET it == its[i]
            ids == FrontierIds(it)
        IN (it.kind = "ns" /\ it.last # "panic") =>
            /\ NoDuplicates(ids)
            /\ Range(ids) \subseteq it.visited
            /\ it.visited = Range(it.yielded) \cup Range(ids)
            /\ Range(it.yielded) \cap Range(ids) = {}
            /\ Len(ids) = Cardinality(it.visited) - Len(it.yielded)

\* The node yielded last lists twice a neighbor that waits in the heap, and
\* that neighbor is also listed by a node yielded earlier.
C16_Witness ==
    \E i \in DOMAIN its :
        LET it == its[i]
            n == Len(it.yielded)
        IN /\ it.kind = "ns"
           /\ n >= 2
           /\ \E x \in Range(FrontierIds(it)) :
                 /\ Count(NodeAt(graph, it.yielded[n]).neighbors, x) = 2
                 /\ \E k \in 1..(n - 1) :
                       x \in Range(NodeAt(graph, it.yielded[k]).neighbors)

----------------------------------------------------------------------------
\* The indices one neighbor edge away from an in-range node of S.
SuccessorsAny(g, S) ==
    UNION {Range(NodeAt(g, m).neighbors) : m \in {x \in S : InRange(g, x)}}

RECURSIVE ReachFromAny(_, _)
ReachFromAny(g, S) ==
    LET T == S \cup SuccessorsAny(g, S) IN
    IF T = S THEN S ELSE ReachFromAny(g, T)

\* The indices, out-of-range ones included, reachable from start.
ReachableAny(g, start) == ReachFromAny(g, {start})

\* start is valid and a node reachable from it lists a neighbor >= N.
DanglingReachable(g, start) ==
    /\ InRange(g, start)
    /\ \E x \in ReachableAny(g, start) : ~InRange(g, x)

\* C17: in every variant, when a node reachable from a valid start lists a
\* neighbor index >= N, no next() call returns None, no out-of-range index
\* is yielded, and at most the reachable in-range nodes are yielded: pulling
\* on ends in the out-of-bounds failure.
C17_DanglingNeighborFails ==
    \A i \in DOMAIN its :
        LET it == its[i] IN
        DanglingReachable(graph, it.start) =>
            /\ it.last # "none"
            /\ it.nones = 0
            /\ \A k \in DOMAIN it.yielded : InRange(graph, it.yielded[k])
            /\ NoDuplicates(it.yielded)
            /\ Range(it.yielded) \subseteq ReachableAny(graph, it.start)

\* A traversal from a valid start that yielded two nodes and then failed.
C17_Witness ==
    \E i \in DOMAIN its :
        /\ DanglingReachable(graph, its[i].start)
        /\ its[i].last = "panic"
        /\ Len(its[i].yielded) >= 2

----------------------------------------------------------------------------
\* The reference BFS that marks at enqueue time: start is marked at
\* construction and each neighbor is marked before it is pushed.
RECURSIVE RefBfsPush(_, _, _)
RefBfsPush(queue, marked, ns) ==
    IF ns = <<>> THEN [queue |-> queue, marked |-> marked]
    ELSE IF Head(ns) \in marked THEN RefBfsPush(queue, marked, Tail(ns))
    ELSE RefBfsPush(Append(queue, Head(ns)), marked \cup {Head(ns)}, Tail(ns))

RECURSIVE RefBfsRun(_, _, _, _)
RefBfsRun(g, queue, marked, out) ==
    IF queue = <<>> THEN out
    ELSE LET p == RefBfsPush(Tail(queue), marked, NodeAt(g, Head(queue)).neighbors)
         IN RefBfsRun(g, p.queue, p.marked, Append(out, Head(queue)))

RefBfs(g, start) == RefBfsRun(g, <<start>>, {start}, <<>>)

\* C18: over a graph with in-range neighbors and from a valid start,
\* BfsIterator yields the nodes of the enqueue-time-marking BFS in its
\* order: what it has yielded is always a prefix of that sequence, and is
\* the whole sequence once next() has returned None.
C18_BfsIsEnqueueMarkedBfs ==
    \A i \in DOMAIN its :
        LET it == its[i] IN
        it.kind = "bfs" =>
            /\ IsPrefix(it.yielded, RefBfs(graph, it.start))
            /\ it.last = "none" => it.yielded = RefBfs(graph, it.start)

\* An exhausted BFS over three nodes that removed a duplicate queue entry.
C18_Witness ==
    \E i \in DOMAIN its :
        LET it == its[i] IN
        /\ it.kind = "bfs"
        /\ it.last = "none"
        /\ Len(it.yielded) = 3
        /\ it.pops > 3

----------------------------------------------------------------------------
\* C19: over a graph whose neighbor indices are all < N and from a start
\* < N, every index in the frontier of any of the three iterators is < N
\* and reachable from start, and no next() call fails.
C19_FrontierInRange ==
    \A i \in DOMAIN its :
        LET it == its[i] IN
        /\ it.last # "panic"
        /\ \A x \in Range(FrontierIds(it)) :
              InRange(graph, x) /\ x \in Reachable(graph, it.start)

\* An iterator that yielded two nodes and holds two different indices in
\* its frontier.
C19_Witness ==
    \E i \in DOMAIN its :
        /\ Len(its[i].yielded) >= 2
        /\ Cardinality(Range(FrontierIds(its[i]))) >= 2

====
